---- MODULE Spec2Model ----
(***************************************************************************)
(* integration/compare_clan_responses.py: one run of main().               *)
(*                                                                         *)
(* The run checks two credentials, fetches a clan through the in-process   *)
(* Python client (login, get_clan, close in a finally block), fetches the  *)
(* same clan through the Java client (a Gradle subprocess whose standard   *)
(* output is stripped and parsed as JSON) and compares the two payloads    *)
(* with _compare_dicts (normalize, ==, json.dumps(sort_keys=True),         *)
(* find_difference).                                                       *)
(*                                                                         *)
(* Python values are records whose field kind is type(v).__name__.         *)
(* A dict keeps its keys in insertion order (keys) beside its values       *)
(* (items); a mapping key is the pair <<first character, rest>>, so that   *)
(* str.startswith("_") is a test of the first character.                   *)
(***************************************************************************)
EXTENDS Integers, Sequences, FiniteSets, TLC

\* ------------------------------------------------------------ bounds

\* Integer leaves of the payloads are 1..MaxInt.
MaxInt == 2

\* Lists of leaves have at most MaxLen elements.
MaxLen == 2

\* The subprocess exit codes are 0..MaxReturnCode.
MaxReturnCode == 2

\* ------------------------------------------------------ Python values

Val(kind, num, text, nan, keys, items) ==
    [kind |-> kind, num |-> num, text |-> text, nan |-> nan,
     keys |-> keys, items |-> items]

PNone == Val("NoneType", 0, "", FALSE, <<>>, <<>>)

\* True is 1 and False is 0 in every numeric comparison.
PBool(n) == Val("bool", n, "", FALSE, <<>>, <<>>)

PInt(n) == Val("int", n, "", FALSE, <<>>, <<>>)

\* The float n.0.
PFloat(n) == Val("float", n, "", FALSE, <<>>, <<>>)

\* A float NaN; num is the identity of the object (id(v)), which is all that
\* tells two NaN objects apart.
PNaN(oid) == Val("float", oid, "", TRUE, <<>>, <<>>)

PStr(s) == Val("str", 0, s, FALSE, <<>>, <<>>)

PList(items) == Val("list", 0, "", FALSE, <<>>, items)

PDict(keys, items) == Val("dict", 0, "", FALSE, keys, items)

\* A name that is not bound yet (no payload).
Unset == Val("<unset>", 0, "", FALSE, <<>>, <<>>)

KeyText(k) == k[1] \o k[2]

StartsWith(k, c) == k[1] = c

KeySet(d) == {d.keys[i] : i \in 1..Len(d.keys)}

\* d[k] for a key of d.
GetItem(d, k) == d.items[CHOOSE i \in 1..Len(d.keys) : d.keys[i] = k]

\* The mapping keys of the model in code-point order, which is the order of
\* sorted() on str: "_" (0x5F) sorts before the lower-case letters, and a
\* proper prefix before its extensions.
KeyOrder ==
    << <<"_", "p">>, <<"a", "">>, <<"b", "">>, <<"b", "uilderBaseRank">>,
       <<"s", "tatus_code">>, <<"t", "imestamp">> >>

\* sorted(S) for a set S of mapping keys.
Sorted(S) == SelectSeq(KeyOrder, LAMBDA k : k \in S)

\* sep.join(parts)
RECURSIVE Join(_, _)
Join(parts, sep) ==
    IF Len(parts) = 0 THEN ""
    ELSE IF Len(parts) = 1 THEN parts[1]
    ELSE parts[1] \o sep \o Join(Tail(parts), sep)

\* ---------------------------------------------------- _compare_dicts

ignore_keys == {"builderBaseRank", "status_code", "timestamp"}

\* Kept without the test of the "_" prefix.
KeptIgnoreSetOnly(k) == KeyText(k) \notin ignore_keys

\* The filter of normalize's dict comprehension.
Kept(k) == ~StartsWith(k, "_") /\ KeyText(k) \notin ignore_keys

RECURSIVE normalize(_)

\* normalize without the branch for lists.
normalize_dicts_only(value) ==
    IF value.kind = "dict" THEN
        LET kept == SelectSeq([i \in 1..Len(value.keys) |-> i],
                              LAMBDA i : Kept(value.keys[i]))
        IN  PDict([j \in 1..Len(kept) |-> value.keys[kept[j]]],
                  [j \in 1..Len(kept) |-> normalize(value.items[kept[j]])])
    ELSE value

normalize(value) ==
    IF value.kind = "dict" THEN
        LET kept == SelectSeq([i \in 1..Len(value.keys) |-> i],
                              LAMBDA i : Kept(value.keys[i]))
        IN  PDict([j \in 1..Len(kept) |-> value.keys[kept[j]]],
                  [j \in 1..Len(kept) |-> normalize(value.items[kept[j]])])
    ELSE IF value.kind = "list" THEN
        PList([i \in 1..Len(value.items) |-> normalize(value.items[i])])
    ELSE value

Numeric == {"int", "float", "bool"}

\* a is b, for the objects of two payloads: the containers of the two
\* payloads are distinct objects (normalize builds new ones), and of the
\* scalars only a NaN compares unequal to itself, so only its identity counts.
Is(a, b) == a.nan /\ b.nan /\ a.num = b.num

\* left == right. Containers compare their elements with
\* PyObject_RichCompareBool, which is true of identical objects before
\* __eq__ is asked.
RECURSIVE PyEq(_, _)
PyEq(a, b) ==
    CASE a.kind = "dict" /\ b.kind = "dict" ->
            /\ KeySet(a) = KeySet(b)
            /\ \A k \in KeySet(a) :
                  \/ Is(GetItem(a, k), GetItem(b, k))
                  \/ PyEq(GetItem(a, k), GetItem(b, k))
      [] a.kind = "list" /\ b.kind = "list" ->
            /\ Len(a.items) = Len(b.items)
            /\ \A i \in 1..Len(a.items) :
                  \/ Is(a.items[i], b.items[i])
                  \/ PyEq(a.items[i], b.items[i])
      [] a.kind \in Numeric /\ b.kind \in Numeric ->
            ~a.nan /\ ~b.nan /\ a.num = b.num
      [] a.kind = "str" /\ b.kind = "str" -> a.text = b.text
      [] a.kind = "NoneType" /\ b.kind = "NoneType" -> TRUE
      [] OTHER -> FALSE

\* json.dumps(value, sort_keys=True), with the default separators.
RECURSIVE dumps(_)
dumps(value) ==
    CASE value.kind = "dict" ->
            LET ks == Sorted(KeySet(value))
            IN  "{" \o Join([i \in 1..Len(ks) |->
                                "\"" \o KeyText(ks[i]) \o "\": "
                                     \o dumps(GetItem(value, ks[i]))], ", ")
                    \o "}"
      [] value.kind = "list" ->
            "[" \o Join([i \in 1..Len(value.items) |-> dumps(value.items[i])],
                        ", ") \o "]"
      [] value.kind = "str" -> "\"" \o value.text \o "\""
      [] value.kind = "int" -> ToString(value.num)
      [] value.kind = "float" ->
            IF value.nan THEN "NaN" ELSE ToString(value.num) \o ".0"
      [] value.kind = "bool" -> IF value.num = 1 THEN "true" ELSE "false"
      [] OTHER -> "null"

\* repr(value) of a scalar, as the f-string's !r writes it.
Repr(value) ==
    CASE value.kind = "str" -> "'" \o value.text \o "'"
      [] value.kind = "int" -> ToString(value.num)
      [] value.kind = "float" ->
            IF value.nan THEN "nan" ELSE ToString(value.num) \o ".0"
      [] value.kind = "bool" -> IF value.num = 1 THEN "True" ELSE "False"
      [] OTHER -> "None"

\* a != b of two scalars of one type.
ScalarNe(a, b) ==
    CASE a.kind \in Numeric -> a.nan \/ b.nan \/ a.num # b.num
      [] a.kind = "str" -> a.text # b.text
      [] OTHER -> FALSE

RECURSIVE find_difference(_, _, _)
RECURSIVE find_in_keys(_, _, _, _)
RECURSIVE find_in_items(_, _, _, _)

\* find_in_keys without the early return: the last difference wins.
find_in_keys_last(a, b, keys, path) ==
    IF Len(keys) = 0 THEN ""
    ELSE LET key == keys[1]
             sub == path \o "." \o KeyText(key)
             later == find_in_keys(a, b, Tail(keys), path)
         IN  IF later # "" THEN later
             ELSE IF key \notin KeySet(a) THEN sub \o ": missing from Python payload"
             ELSE IF key \notin KeySet(b) THEN sub \o ": missing from Java payload"
             ELSE find_difference(GetItem(a, key), GetItem(b, key), sub)

\* The loop over sorted(set(a) | set(b)), from the first of keys on.
find_in_keys(a, b, keys, path) ==
    IF Len(keys) = 0 THEN ""
    ELSE LET key == keys[1]
             sub == path \o "." \o KeyText(key)
         IN  IF key \notin KeySet(a) THEN sub \o ": missing from Python payload"
             ELSE IF key \notin KeySet(b) THEN sub \o ": missing from Java payload"
             ELSE LET diff == find_difference(GetItem(a, key), GetItem(b, key), sub)
                  IN  IF diff # "" THEN diff
                      ELSE find_in_keys(a, b, Tail(keys), path)

\* The loop over enumerate(zip(a, b)), from index idx (counted from 0) on.
find_in_items(a, b, idx, path) ==
    IF idx >= Len(a.items) \/ idx >= Len(b.items) THEN ""
    ELSE LET diff == find_difference(a.items[idx + 1], b.items[idx + 1],
                                     path \o "[" \o ToString(idx) \o "]")
         IN  IF diff # "" THEN diff
             ELSE find_in_items(a, b, idx + 1, path)

\* find_difference over the keys as inserted (a's, then b's own), not sorted.
find_difference_insertion_order(a, b, path) ==
    IF a.kind # b.kind THEN
        path \o ": type mismatch " \o a.kind \o " vs " \o b.kind
    ELSE IF a.kind = "dict" THEN
        find_in_keys(a, b,
                     a.keys \o SelectSeq(b.keys, LAMBDA k : k \notin KeySet(a)), path)
    ELSE IF a.kind = "list" THEN
        IF Len(a.items) # Len(b.items) THEN
            path \o ": list length " \o ToString(Len(a.items))
                 \o " vs " \o ToString(Len(b.items))
        ELSE find_in_items(a, b, 0, path)
    ELSE IF ScalarNe(a, b) THEN
        path \o ": value mismatch " \o Repr(a) \o " vs " \o Repr(b)
    ELSE ""

\* find_difference without the comparison of the lengths: zip stops at the
\* shorter list.
find_difference_no_length(a, b, path) ==
    IF a.kind # b.kind THEN
        path \o ": type mismatch " \o a.kind \o " vs " \o b.kind
    ELSE IF a.kind = "dict" THEN
        find_in_keys(a, b, Sorted(KeySet(a) \cup KeySet(b)), path)
    ELSE IF a.kind = "list" THEN find_in_items(a, b, 0, path)
    ELSE IF ScalarNe(a, b) THEN
        path \o ": value mismatch " \o Repr(a) \o " vs " \o Repr(b)
    ELSE ""

find_difference(a, b, path) ==
    IF a.kind # b.kind THEN
        path \o ": type mismatch " \o a.kind \o " vs " \o b.kind
    ELSE IF a.kind = "dict" THEN
        find_in_keys(a, b, Sorted(KeySet(a) \cup KeySet(b)), path)
    ELSE IF a.kind = "list" THEN
        IF Len(a.items) # Len(b.items) THEN
            path \o ": list length " \o ToString(Len(a.items))
                 \o " vs " \o ToString(Len(b.items))
        ELSE find_in_items(a, b, 0, path)
    ELSE IF ScalarNe(a, b) THEN
        path \o ": value mismatch " \o Repr(a) \o " vs " \o Repr(b)
    ELSE ""

\* ---------------------------------------------------------- json.loads

\* The subprocess's standard output is a sequence of lexical tokens: tok is
\* the token's class, and a literal carries its value (num of a number,
\* <<head, tail>> the characters of a string).
Tok(tok, num, head, tail) == [tok |-> tok, num |-> num, head |-> head, tail |-> tail]

Punct(c) == Tok(c, 0, "", "")

Ws == Tok("ws", 0, "", "")

\* The one NaN object of the json module (json.decoder.NaN), which every NaN
\* literal parses to.
JsonNaN == PNaN(1)

\* str.strip(): the whitespace at both ends goes.
RECURSIVE LStrip(_)
LStrip(ts) ==
    IF Len(ts) > 0 /\ ts[1].tok = "ws" THEN LStrip(Tail(ts)) ELSE ts

RECURSIVE RStrip(_)
RStrip(ts) ==
    IF Len(ts) > 0 /\ ts[Len(ts)].tok = "ws"
    THEN RStrip(SubSeq(ts, 1, Len(ts) - 1)) ELSE ts

Strip(ts) == RStrip(LStrip(ts))

ParseFail == [ok |-> FALSE, val |-> Unset, rest |-> <<>>]

ParseOk(v, rest) == [ok |-> TRUE, val |-> v, rest |-> rest]

\* dict[key] = value while an object is read: a repeated key keeps its first
\* place and takes the last value.
SetItem(d, key, value) ==
    IF key \in KeySet(d)
    THEN PDict(d.keys, [i \in 1..Len(d.keys) |->
                           IF d.keys[i] = key THEN value ELSE d.items[i]])
    ELSE PDict(Append(d.keys, key), Append(d.items, value))

RECURSIVE ParseValue(_)
RECURSIVE ParseMembers(_, _)
RECURSIVE ParseElements(_, _)

\* The members of an object after "{" or ",": "key" : value, then "," or "}".
ParseMembers(ts, d) ==
    LET s == LStrip(ts)
    IN  IF Len(s) = 0 \/ s[1].tok # "str" THEN ParseFail
        ELSE LET c == LStrip(Tail(s))
             IN  IF Len(c) = 0 \/ c[1].tok # ":" THEN ParseFail
                 ELSE LET v == ParseValue(Tail(c))
                          e == LStrip(v.rest)
                          d2 == SetItem(d, <<s[1].head, s[1].tail>>, v.val)
                      IN  IF ~v.ok \/ Len(e) = 0 THEN ParseFail
                          ELSE IF e[1].tok = "}" THEN ParseOk(d2, Tail(e))
                          ELSE IF e[1].tok = "," THEN ParseMembers(Tail(e), d2)
                          ELSE ParseFail

\* The elements of an array after "[" or ",": value, then "," or "]".
ParseElements(ts, items) ==
    LET v == ParseValue(ts)
        e == LStrip(v.rest)
    IN  IF ~v.ok \/ Len(e) = 0 THEN ParseFail
        ELSE IF e[1].tok = "]" THEN ParseOk(PList(Append(items, v.val)), Tail(e))
        ELSE IF e[1].tok = "," THEN ParseElements(Tail(e), Append(items, v.val))
        ELSE ParseFail

ParseValue(ts) ==
    LET s == LStrip(ts)
    IN  IF Len(s) = 0 THEN ParseFail
        ELSE LET t == s[1]
                 r == LStrip(Tail(s))
             IN  CASE t.tok = "{" ->
                        IF Len(r) > 0 /\ r[1].tok = "}"
                        THEN ParseOk(PDict(<<>>, <<>>), Tail(r))
                        ELSE ParseMembers(r, PDict(<<>>, <<>>))
                   [] t.tok = "[" ->
                        IF Len(r) > 0 /\ r[1].tok = "]"
                        THEN ParseOk(PList(<<>>), Tail(r))
                        ELSE ParseElements(r, <<>>)
                   [] t.tok = "str" -> ParseOk(PStr(t.head \o t.tail), Tail(s))
                   [] t.tok = "int" -> ParseOk(PInt(t.num), Tail(s))
                   [] t.tok = "float" -> ParseOk(PFloat(t.num), Tail(s))
                   [] t.tok = "NaN" -> ParseOk(JsonNaN, Tail(s))
                   [] t.tok = "true" -> ParseOk(PBool(1), Tail(s))
                   [] t.tok = "false" -> ParseOk(PBool(0), Tail(s))
                   [] t.tok = "null" -> ParseOk(PNone, Tail(s))
                   [] OTHER -> ParseFail

\* json.loads(output): one value, and nothing but whitespace after it
\* (JSONDecodeError otherwise: ok is FALSE).
loads(ts) ==
    LET v == ParseValue(ts)
    IN  IF v.ok /\ Len(LStrip(v.rest)) = 0 THEN v ELSE ParseFail

\* ------------------------------------------------------------ inputs

KeyA == <<"a", "">>

KeyB == <<"b", "">>

KeyTimestamp == <<"t", "imestamp">>

KeyPrivate == <<"_", "p">>

\* The sequences over X of length at most n.
SeqsUpTo(X, n) == UNION {[1..k -> X] : k \in 0..n}

IntLeaves == {PInt(n) : n \in 1..MaxInt}

\* 1 and 1.0 are equal (==) and of different types.
Leaves == IntLeaves \cup {PFloat(1)}

Scalars(nans) == Leaves \cup nans \cup {PBool(1), PStr("a"), PNone}

\* The smallest and the largest integer leaf.
EndLeaves == {PInt(1), PInt(MaxInt)}

\* Containers of scalars: lists (of up to MaxLen integers, and pairs of any
\* leaves), and dicts in both key orders, with an ignored key (timestamp)
\* and with a private one (_p).
Flat(nans) ==
    {PList(s) : s \in SeqsUpTo(EndLeaves, MaxLen)}
    \cup {PList(<<v, w>>) : v \in Leaves, w \in Leaves}
    \cup {PList(<<n>>) : n \in nans \cup {PFloat(1)}}
    \cup {PDict(<<>>, <<>>)}
    \cup {PDict(<<KeyA>>, <<v>>) : v \in Scalars(nans)}
    \cup {PDict(<<KeyA, KeyB>>, <<v, w>>) : v \in Leaves, w \in Leaves}
    \cup {PDict(<<KeyB, KeyA>>, <<v, w>>) : v \in IntLeaves, w \in IntLeaves}
    \cup {PDict(<<KeyA, KeyTimestamp>>, <<v, t>>) : v \in IntLeaves, t \in IntLeaves}
    \cup {PDict(<<KeyPrivate, KeyA>>, <<PInt(1), v>>) : v \in Leaves}

Inner ==
    {PDict(<<KeyA>>, <<v>>) : v \in Leaves}
    \cup {PDict(<<KeyA, KeyTimestamp>>, <<PInt(1), t>>) : t \in IntLeaves}
    \cup {PList(<<v>>) : v \in Leaves}

\* Containers of containers: a dict in a list, a dict in a dict, a container
\* before a scalar sibling (list) and after one in sorted key order (dict).
Nested ==
    {PList(<<x>>) : x \in Inner}
    \cup {PDict(<<KeyA>>, <<x>>) : x \in Inner}
    \cup {PList(<<x, v>>) : x \in Inner, v \in EndLeaves}
    \cup {PDict(<<KeyB, KeyA>>, <<x, v>>) : x \in Inner, v \in EndLeaves}

Payloads(nans) == Scalars(nans) \cup Flat(nans) \cup Nested

\* clan._raw_data: the Python client's JSON library may or may not share its
\* NaN object with the json module.
PyPayloads == Payloads({JsonNaN, PNaN(2)})

\* What the Java client may write as JSON.
JavaPayloads == Payloads({JsonNaN})

\* The compact JSON text of a value, keys in insertion order, as tokens.
RECURSIVE Tokens(_)
RECURSIVE TokensOfAll(_, _, _)
TokensOfAll(keys, items, i) ==
    IF i > Len(items) THEN <<>>
    ELSE (IF i > 1 THEN <<Punct(",")>> ELSE <<>>)
         \o (IF Len(keys) > 0
             THEN <<Tok("str", 0, keys[i][1], keys[i][2]), Punct(":")>>
             ELSE <<>>)
         \o Tokens(items[i]) \o TokensOfAll(keys, items, i + 1)

Tokens(v) ==
    CASE v.kind = "dict" ->
            <<Punct("{")>> \o TokensOfAll(v.keys, v.items, 1) \o <<Punct("}")>>
      [] v.kind = "list" ->
            <<Punct("[")>> \o TokensOfAll(<<>>, v.items, 1) \o <<Punct("]")>>
      [] v.kind = "str" -> <<Tok("str", 0, v.text, "")>>
      [] v.kind = "int" -> <<Tok("int", v.num, "", "")>>
      [] v.kind = "float" ->
            IF v.nan THEN <<Punct("NaN")>> ELSE <<Tok("float", v.num, "", "")>>
      [] v.kind = "bool" -> IF v.num = 1 THEN <<Punct("true")>> ELSE <<Punct("false")>>
      [] OTHER -> <<Punct("null")>>

\* {"a": 1} with whitespace around and inside it.
SpacedOutputs ==
    { <<Ws, Ws>> \o Tokens(PDict(<<KeyA>>, <<PInt(1)>>)) \o <<Ws>>,
      <<Punct("{"), Ws, Tok("str", 0, "a", ""), Ws, Punct(":"), Ws,
        Tok("int", 1, "", ""), Ws, Punct("}"), Ws>>,
      <<Punct("["), Ws, Punct("]")>> }

\* Outputs that json.loads accepts although no serializer writes them, and
\* outputs that are not JSON: a repeated key, false, nothing, whitespace
\* only, a Gradle message, a truncated document, trailing commas, extra data.
OddOutputs ==
    { <<Punct("{"), Tok("str", 0, "a", ""), Punct(":"), Tok("int", 1, "", ""),
        Punct(","), Tok("str", 0, "b", ""), Punct(":"), Tok("int", 1, "", ""),
        Punct(","), Tok("str", 0, "a", ""), Punct(":"), Tok("int", 2, "", ""),
        Punct("}")>>,
      <<Punct("false")>>,
      <<>>,
      <<Ws, Ws>>,
      <<Tok("bad", 0, "BUILD", " FAILED")>>,
      <<Ws, Tok("bad", 0, "BUILD", " FAILED"), Ws>>,
      <<Punct("{"), Tok("str", 0, "a", ""), Punct(":")>>,
      <<Punct("{"), Tok("str", 0, "a", ""), Punct(":"), Tok("int", 1, "", ""),
        Punct(","), Punct("}")>>,
      <<Punct("["), Tok("int", 1, "", ""), Punct(","), Punct("]")>>,
      <<Punct("{"), Tok("int", 1, "", ""), Punct(":"), Tok("int", 1, "", ""),
        Punct("}")>>,
      <<Tok("int", 1, "", ""), Ws, Tok("int", 2, "", "")>>,
      <<Punct("{"), Punct("}"), Tok("bad", 0, "BUILD", " FAILED")>> }

\* result.stdout of a subprocess that exited with 0.
JavaOutputs == {Tokens(p) : p \in JavaPayloads} \cup SpacedOutputs \cup OddOutputs

\* result.stdout of a subprocess that exited with another code: anything,
\* a well-formed document included.
FailedOutputs ==
    OddOutputs \cup SpacedOutputs
    \cup {Tokens(p) : p \in {PDict(<<KeyA>>, <<v>>) : v \in Leaves}}

\* os.getenv(name): None of a variable that is not set.
NoValue == "<None>"

EnvValues == {NoValue, "", "secret"}

DEFAULT_TAG == "#2JLYPYRRY"

TagValues == {NoValue, "#TAG"}

\* ------------------------------------------------------------- state

VARIABLES
    pc,              \* where main() is
    environ,         \* os.environ
    http,            \* client.http: "none", "open" (a session), "closed"
    pending,         \* the exception that left the try block, "" for none
    raw,             \* the value the try block returns
    python_payload,
    proc,            \* the completed subprocess: returncode, stdout
    java_payload,
    left,            \* _compare_dicts' left and right after normalize
    right,
    out,             \* the lines printed to sys.stdout
    err,             \* what was written to sys.stderr
    exit_code,       \* the process's exit status, -1 while it runs
    started          \* the steps begun so far, in order

vars == <<pc, environ, http, pending, raw, python_payload, proc, java_payload,
          left, right, out, err, exit_code, started>>

NoProc == [returncode |-> -1, stdout |-> <<>>, stderr |-> ""]

Init ==
    /\ pc = "require_email"
    /\ environ \in [COC_EMAIL : EnvValues, COC_PASSWORD : EnvValues,
                    COC_CLAN_TAG : TagValues]
    /\ http = "none"
    /\ pending = ""
    /\ raw = Unset
    /\ python_payload = Unset
    /\ proc = NoProc
    /\ java_payload = Unset
    /\ left = Unset
    /\ right = Unset
    /\ out = <<>>
    /\ err = <<>>
    /\ exit_code = -1
    /\ started = <<>>

\* _require_env with "is None" for "not value": an empty value passes.
require_env_none_only(name) ==
    IF environ[name] = NoValue
    THEN [ok |-> FALSE, msg |-> "Missing required environment variable: " \o name]
    ELSE [ok |-> TRUE, msg |-> ""]

\* _require_env(name): whether the value is there, and the SystemExit message
\* if it is not.
require_env(name) ==
    IF environ[name] = NoValue \/ environ[name] = ""
    THEN [ok |-> FALSE, msg |-> "Missing required environment variable: " \o name]
    ELSE [ok |-> TRUE, msg |-> ""]

\* An exception that nothing catches, or SystemExit(msg): the message goes
\* to sys.stderr and the process ends with status 1.
Die(msg) ==
    /\ pc' = "exited"
    /\ exit_code' = 1
    /\ err' = Append(err, msg)

RequireEmail ==
    /\ pc = "require_email"
    /\ started' = Append(started, "require_env")
    /\ IF require_env("COC_EMAIL").ok
       THEN pc' = "require_password" /\ UNCHANGED <<exit_code, err>>
       ELSE Die(require_env("COC_EMAIL").msg)
    /\ UNCHANGED <<environ, http, pending, raw, python_payload, proc,
                   java_payload, left, right, out>>

\* The second credential, the tag, and the first line of output.
RequirePassword ==
    /\ pc = "require_password"
    /\ IF require_env("COC_PASSWORD").ok
       THEN /\ pc' = "login"
            /\ out' = Append(out, "Fetching clan "
                    \o (IF environ.COC_CLAN_TAG = NoValue THEN DEFAULT_TAG
                        ELSE environ.COC_CLAN_TAG)
                    \o " using python coc client...")
            /\ UNCHANGED <<exit_code, err>>
       ELSE Die(require_env("COC_PASSWORD").msg) /\ UNCHANGED out
    /\ UNCHANGED <<environ, http, pending, raw, python_payload, proc,
                   java_payload, left, right, started>>

\* What client.login can do: return with a session in client.http, or raise
\* (or be cancelled) before or after the session exists.
LoginOutcomes ==
    {[http |-> "open", exc |-> ""]}
    \cup [http : {"none", "open"}, exc : {"InvalidCredentials", "KeyboardInterrupt"}]

\* await client.login(email, password)
Login ==
    /\ pc = "login"
    /\ started' = Append(started, "login")
    /\ \E o \in LoginOutcomes :
          /\ http' = o.http
          /\ pending' = o.exc
          /\ pc' = IF o.exc = "" THEN "get_clan" ELSE "finally"
    /\ UNCHANGED <<environ, raw, python_payload, proc, java_payload, left,
                   right, out, err, exit_code>>

\* await client.get_clan(tag) and the read of clan._raw_data.
GetClan ==
    /\ pc = "get_clan"
    /\ started' = Append(started, "get_clan")
    /\ pc' = "finally"
    /\ \/ pending' \in {"NotFound", "KeyboardInterrupt"} /\ UNCHANGED raw
       \/ /\ pending' = "RuntimeError: Python client did not expose raw data; enable raw_attribute"
          /\ UNCHANGED raw
       \/ raw' \in PyPayloads /\ UNCHANGED pending
    /\ UNCHANGED <<environ, http, python_payload, proc, java_payload, left,
                   right, out, err, exit_code>>

\* close() at the end of the try block, not in a finally block.
AfterFinallyOnSuccess(h, exc) == IF h = "open" /\ exc = "" THEN "closed" ELSE h

\* client.http after the finally block: close() if client.http is truthy.
AfterFinally(h, exc) == IF h = "open" THEN "closed" ELSE h

\* The finally block of _fetch_python_clan, and what follows it in main: the
\* exception goes on (KeyboardInterrupt becomes SystemExit("Cancelled")), or
\* the payload is bound and the second line of output printed.
Finally ==
    /\ pc = "finally"
    /\ http' = AfterFinally(http, pending)
    /\ IF pending # ""
       THEN /\ Die(IF pending = "KeyboardInterrupt" THEN "Cancelled" ELSE pending)
            /\ UNCHANGED <<python_payload, out>>
       ELSE /\ python_payload' = raw
            /\ out' = Append(out, "Fetching clan using Java client via Gradle...")
            /\ pc' = "fetch_java"
            /\ UNCHANGED <<exit_code, err>>
    /\ UNCHANGED <<environ, pending, raw, proc, java_payload, left, right,
                   started>>

\* What the Gradle run writes to its standard error.
StdErr(rc) == IF rc = 0 THEN "" ELSE "FAILURE: Build failed with an exception."

\* _fetch_java_clan with the output looked at before the exit code.
fetch_java_clan_output_first(result) ==
    LET output == Strip(result.stdout)
    IN  IF Len(output) = 0 THEN
            [ok |-> FALSE, val |-> Unset,
             msg |-> "Java client did not return any JSON output"]
        ELSE IF result.returncode # 0 THEN
            [ok |-> FALSE, val |-> Unset,
             msg |-> "Java client execution failed with exit code "
                     \o ToString(result.returncode)]
        ELSE IF loads(output).ok THEN
            [ok |-> TRUE, val |-> loads(output).val, msg |-> ""]
        ELSE
            [ok |-> FALSE, val |-> Unset,
             msg |-> "Failed to parse Java client output as JSON"]

\* _fetch_java_clan after subprocess.run: the payload, or the SystemExit
\* message.
fetch_java_clan(result) ==
    IF result.returncode # 0 THEN
        [ok |-> FALSE, val |-> Unset,
         msg |-> "Java client execution failed with exit code "
                 \o ToString(result.returncode)]
    ELSE LET output == Strip(result.stdout)
         IN  IF Len(output) = 0 THEN
                 [ok |-> FALSE, val |-> Unset,
                  msg |-> "Java client did not return any JSON output"]
             ELSE IF loads(output).ok THEN
                 [ok |-> TRUE, val |-> loads(output).val, msg |-> ""]
             ELSE
                 [ok |-> FALSE, val |-> Unset,
                  msg |-> "Failed to parse Java client output as JSON"]

FetchJava ==
    /\ pc = "fetch_java"
    /\ started' = Append(started, "subprocess")
    /\ \E rc \in 0..MaxReturnCode :
         \E stdout \in (IF rc = 0 THEN JavaOutputs ELSE FailedOutputs) :
            /\ proc' = [returncode |-> rc, stdout |-> stdout, stderr |-> StdErr(rc)]
            /\ IF fetch_java_clan(proc').ok
               THEN /\ java_payload' = fetch_java_clan(proc').val
                    /\ pc' = "compare"
                    /\ UNCHANGED <<exit_code, err>>
               ELSE /\ pc' = "exited"
                    /\ exit_code' = 1
                    /\ err' = (IF rc # 0 THEN Append(err, proc'.stderr) ELSE err)
                                \o <<fetch_java_clan(proc').msg>>
                    /\ UNCHANGED java_payload
    /\ UNCHANGED <<environ, http, pending, raw, python_payload, left, right, out>>

\* _compare_dicts without the second tier.
compare_dicts_tier1_only(l, r) ==
    IF PyEq(l, r) THEN
        [ok |-> TRUE, msg |-> "Success: Python and Java responses match byte-for-byte."]
    ELSE
        [ok |-> FALSE,
         msg |-> "Mismatch detected between Python and Java payloads: "
                 \o find_difference(l, r, "root")]

\* _compare_dicts on two normalized payloads: the line printed, or the
\* SystemExit message.
compare_dicts(l, r) ==
    IF PyEq(l, r) THEN
        [ok |-> TRUE, msg |-> "Success: Python and Java responses match byte-for-byte."]
    ELSE IF dumps(l) = dumps(r) THEN
        [ok |-> TRUE,
         msg |-> "Success: Python and Java responses match after key normalization."]
    ELSE
        [ok |-> FALSE,
         msg |-> "Mismatch detected between Python and Java payloads: "
                 \o find_difference(l, r, "root")]

Compare ==
    /\ pc = "compare"
    /\ started' = Append(started, "compare")
    /\ left' = normalize(python_payload)
    /\ right' = normalize(java_payload)
    /\ IF compare_dicts(left', right').ok
       THEN /\ out' = Append(out, compare_dicts(left', right').msg)
            /\ pc' = "exited"
            /\ exit_code' = 0
            /\ UNCHANGED err
       ELSE Die(compare_dicts(left', right').msg) /\ UNCHANGED out
    /\ UNCHANGED <<environ, http, pending, raw, python_payload, proc, java_payload>>

Next ==
    \/ RequireEmail
    \/ RequirePassword
    \/ Login
    \/ GetClan
    \/ Finally
    \/ FetchJava
    \/ Compare

Spec == Init /\ [][Next]_vars

\* ------------------------------------------------------------ properties

Did(step) == \E i \in 1..Len(started) : started[i] = step

Printed(line) == \E i \in 1..Len(out) : out[i] = line

SuccessTier1 == "Success: Python and Java responses match byte-for-byte."

SuccessTier2 == "Success: Python and Java responses match after key normalization."

MismatchPrefix == "Mismatch detected between Python and Java payloads: "

SuccessPrinted == Printed(SuccessTier1) \/ Printed(SuccessTier2)

\* The comparison ran and ended the run with a mismatch.
Mismatched == Did("compare") /\ exit_code = 1

\* The text after the prefix of the mismatch message is d.
Reported(d) == err[Len(err)] = MismatchPrefix \o d

\* A mapping key that the comparison is to ignore.
IgnoredName(k) ==
    k[1] = "_" \/ KeyText(k) \in {"builderBaseRank", "status_code", "timestamp"}

RECURSIVE ConcatAll(_)
ConcatAll(seqs) ==
    IF Len(seqs) = 0 THEN <<>> ELSE seqs[1] \o ConcatAll(Tail(seqs))

\* Every node at which two values differ, in the order of a depth-first walk
\* that takes mapping keys in ascending order over the union of both key
\* sets and sequence elements by index, and that does not go below a node
\* whose types or lengths differ. steps is the way from the root to the
\* node: <<"key", k>> into a mapping, <<"index", i>> into a sequence.
RECURSIVE AllDiffs(_, _, _, _)
AllDiffs(a, b, path, steps) ==
    LET Node(what, text) ==
            <<[what |-> what, msg |-> path \o text, steps |-> steps]>>
        Child(what, sub, text, step) ==
            <<[what |-> what, msg |-> sub \o text, steps |-> Append(steps, step)]>>
    IN
    IF a.kind # b.kind THEN
        Node("type", ": type mismatch " \o a.kind \o " vs " \o b.kind)
    ELSE IF a.kind = "dict" THEN
        LET ks == Sorted(KeySet(a) \cup KeySet(b))
        IN  ConcatAll([i \in 1..Len(ks) |->
                LET sub == path \o "." \o KeyText(ks[i])
                    step == <<"key", ks[i][1], ks[i][2], 0>>
                IN  IF ks[i] \notin KeySet(a) THEN
                        Child("missing", sub, ": missing from Python payload", step)
                    ELSE IF ks[i] \notin KeySet(b) THEN
                        Child("missing", sub, ": missing from Java payload", step)
                    ELSE AllDiffs(GetItem(a, ks[i]), GetItem(b, ks[i]), sub,
                                  Append(steps, step))])
    ELSE IF a.kind = "list" THEN
        IF Len(a.items) # Len(b.items) THEN
            Node("length", ": list length " \o ToString(Len(a.items)) \o " vs "
                           \o ToString(Len(b.items)))
        ELSE ConcatAll([i \in 1..Len(a.items) |->
                AllDiffs(a.items[i], b.items[i],
                         path \o "[" \o ToString(i - 1) \o "]",
                         Append(steps, <<"index", "", "", i>>))])
    ELSE IF ScalarNe(a, b) THEN
        Node("value", ": value mismatch " \o Repr(a) \o " vs " \o Repr(b))
    ELSE <<>>

\* The differing nodes of the two normalized payloads of the run.
Diffs == AllDiffs(left, right, "root", <<>>)

\* The place in Diffs of the node the mismatch message names.
ReportedAt == CHOOSE i \in 1..Len(Diffs) : Reported(Diffs[i].msg)

\* The value at the end of steps in v.
RECURSIVE SubValue(_, _)
SubValue(v, steps) ==
    IF Len(steps) = 0 THEN v
    ELSE IF steps[1][1] = "key"
         THEN SubValue(GetItem(v, <<steps[1][2], steps[1][3]>>), Tail(steps))
         ELSE SubValue(v.items[steps[1][4]], Tail(steps))

\* C1: _compare_dicts prints a success line and returns exactly when the
\* normalized payloads are equal (==, first line) or, failing that, their
\* json.dumps(sort_keys=True) texts are identical (second line); in every
\* other case it ends the run with status 1 and the mismatch message, and it
\* never does both.
C1_VerdictIsTwoTier ==
    Did("compare") =>
        LET l == normalize(python_payload)
            r == normalize(java_payload)
            tier1 == PyEq(l, r)
            tier2 == dumps(l) = dumps(r)
        IN  /\ pc = "exited"
            /\ tier1 => exit_code = 0 /\ out[Len(out)] = SuccessTier1 /\ err = <<>>
            /\ ~tier1 /\ tier2 =>
                  exit_code = 0 /\ out[Len(out)] = SuccessTier2 /\ err = <<>>
            /\ ~tier1 /\ ~tier2 =>
                  /\ exit_code = 1
                  /\ Reported(find_difference(l, r, "root"))
                  /\ ~SuccessPrinted
            /\ ~(SuccessPrinted /\ exit_code # 0)

\* The second tier decided: the payloads are not equal and the run succeeded.
C1_Witness == Did("compare") /\ exit_code = 0 /\ ~PyEq(left, right)

RemoveAt(seq, i) == SubSeq(seq, 1, i - 1) \o SubSeq(seq, i + 1, Len(seq))

ReplaceAt(seq, i, x) == [seq EXCEPT ![i] = x]

\* The keys and values that the edits of ignored fields put in.
EditKeys ==
    {KeyPrivate, KeyTimestamp, <<"s", "tatus_code">>, <<"b", "uilderBaseRank">>}

EditValues == {PInt(2), PDict(<<KeyA>>, <<PNaN(2)>>)}

\* Every payload that differs from v by one ignored field, at any depth: an
\* ignored key added (a private one in front, one of the ignore set at the
\* end), removed, or given another value, in a mapping of v, the mappings inside sequences included.
RECURSIVE IgnoredEdits(_)
IgnoredEdits(v) ==
    IF v.kind = "dict" THEN
        LET n == Len(v.keys)
            ign == {i \in 1..n : IgnoredName(v.keys[i])}
        IN  {PDict(<<k>> \o v.keys, <<x>> \o v.items) :
                k \in {KeyPrivate} \ KeySet(v), x \in EditValues}
            \cup {PDict(Append(v.keys, k), Append(v.items, x)) :
                k \in (EditKeys \ {KeyPrivate}) \ KeySet(v), x \in EditValues}
            \cup {PDict(RemoveAt(v.keys, i), RemoveAt(v.items, i)) : i \in ign}
            \cup {PDict(v.keys, ReplaceAt(v.items, i, x)) :
                i \in ign, x \in EditValues}
            \cup UNION {{PDict(v.keys, ReplaceAt(v.items, i, e)) :
                            e \in IgnoredEdits(v.items[i])} : i \in 1..n}
    ELSE IF v.kind = "list" THEN
        UNION {{PList(ReplaceAt(v.items, i, e)) :
                   e \in IgnoredEdits(v.items[i])} : i \in 1..Len(v.items)}
    ELSE {}

\* C2: ignored fields never influence the verdict: a payload that differs
\* from the Python (or the Java) payload of the run only by a key of the
\* ignore set or a key starting with "_", added, removed or changed at any
\* depth, gets the verdict the run got, on either side of the comparison,
\* and compares as equivalent to the payload it was made from.
C2_IgnoredFieldsDoNotCount ==
    Did("compare") =>
        LET p == normalize(python_payload)
            j == normalize(java_payload)
            swapped == compare_dicts(j, p).ok
        IN  /\ \A e \in IgnoredEdits(python_payload) :
                  /\ compare_dicts(normalize(e), j).ok = (exit_code = 0)
                  /\ compare_dicts(j, normalize(e)).ok = swapped
                  /\ compare_dicts(p, normalize(e)).ok
            /\ \A e \in IgnoredEdits(java_payload) :
                  /\ compare_dicts(p, normalize(e)).ok = (exit_code = 0)
                  /\ compare_dicts(normalize(e), p).ok = swapped
                  /\ compare_dicts(j, normalize(e)).ok

\* A run that succeeded although the Python payload has an ignored key in a
\* mapping inside a sequence, which the Java payload has not.
C2_Witness ==
    /\ Did("compare") /\ exit_code = 0
    /\ python_payload.kind = "list" /\ java_payload.kind = "list"
    /\ python_payload # left /\ java_payload = right

\* No mapping of v, at any depth, has an ignored key.
RECURSIVE NoIgnoredKey(_)
NoIgnoredKey(v) ==
    /\ v.kind = "dict" => \A i \in 1..Len(v.keys) : ~IgnoredName(v.keys[i])
    /\ v.kind \in {"dict", "list"} =>
          \A i \in 1..Len(v.items) : NoIgnoredKey(v.items[i])

\* C3: normalize is idempotent, and its result has no mapping key, at any
\* depth, that is in the ignore set or starts with "_": both hold of the two
\* payloads _compare_dicts normalized.
C3_NormalizeIdempotent ==
    Did("compare") =>
        /\ normalize(left) = left /\ normalize(right) = right
        /\ NoIgnoredKey(left) /\ NoIgnoredKey(right)

\* normalize dropped a key of a mapping inside a sequence.
C3_Witness ==
    /\ Did("compare") /\ python_payload.kind = "list" /\ python_payload # left
    /\ Len(left.items) = 1 /\ left.items[1].kind = "dict"

\* C4: when both tiers fail, the difference reported is the first differing
\* node of the depth-first walk from "root" (mapping keys in ascending order
\* over the union of both key sets, sequence elements by index, no descent
\* below a type or length mismatch, an absent key reported as missing at
\* path.key), written with ".key" and "[index]".
C4_FirstDifferenceInWalkOrder ==
    Mismatched => Len(Diffs) > 0 /\ Reported(Diffs[1].msg)

\* A mismatch with a second differing node after the reported one, under a
\* mapping whose keys were inserted in descending order.
C4_Witness ==
    /\ Mismatched /\ Len(Diffs) > 1
    /\ left.kind = "dict" /\ left.keys = <<KeyB, KeyA>>

\* Every differing node of the run is unequal under == too (no 1 against
\* 1.0 or True), so that the type test of find_difference plays no part.
DiffsAreUnequal ==
    \A j \in 1..Len(Diffs) :
        \/ Diffs[j].what = "missing"
        \/ ~PyEq(SubValue(left, Diffs[j].steps), SubValue(right, Diffs[j].steps))

\* C5 as stated: the reported difference is the shallowest, no differing
\* node lies at a strictly smaller depth.
C5_ReportedIsShallowest ==
    Mismatched /\ DiffsAreUnequal =>
        \A j \in 1..Len(Diffs) :
            Len(Diffs[j].steps) >= Len(Diffs[ReportedAt].steps)

\* C5, amended: the reported difference is the first of the walk, not the
\* shallowest: every differing node at a strictly smaller depth than the
\* reported one comes later in the walk order.
C5_ShallowerOnlyLater ==
    Mismatched =>
        \E i \in 1..Len(Diffs) :
            /\ Reported(Diffs[i].msg)
            /\ \A j \in 1..Len(Diffs) :
                  Len(Diffs[j].steps) < Len(Diffs[i].steps) => j > i

\* A mismatch reported at depth 2 while a later node differs at depth 1.
C5_Witness ==
    /\ Mismatched /\ DiffsAreUnequal
    /\ \E j \in 1..Len(Diffs) : Len(Diffs[j].steps) < Len(Diffs[1].steps)

\* C6: the steps run in the order credential check, login, get_clan,
\* subprocess, comparison; the subprocess is not started before fetch A
\* returned a payload, the comparison not unless both fetchers returned one,
\* and a missing credential, a fetch A error or a fetch B error ends the run
\* with a non-zero status, no later step started and no success line printed.
StepOrder == <<"require_env", "login", "get_clan", "subprocess", "compare">>

CredentialMissing ==
    \E n \in {"COC_EMAIL", "COC_PASSWORD"} : environ[n] \in {NoValue, ""}

C6_StepsInOrder ==
    /\ Len(started) <= Len(StepOrder)
    /\ \A i \in 1..Len(started) : started[i] = StepOrder[i]
    /\ Did("subprocess") => python_payload # Unset
    /\ Did("compare") => python_payload # Unset /\ java_payload # Unset
    /\ CredentialMissing => ~Did("login") /\ (pc = "exited" => exit_code = 1)
    /\ pending # "" =>
          ~Did("subprocess") /\ python_payload = Unset
          /\ (pc = "exited" => exit_code = 1)
    /\ Did("subprocess") /\ java_payload = Unset =>
          pc = "exited" /\ exit_code = 1 /\ ~Did("compare")
    /\ exit_code # 0 => ~SuccessPrinted
    /\ pc = "exited" => exit_code \in {0, 1}

\* A run that get_clan's error ended.
C6_Witness ==
    /\ pc = "exited" /\ exit_code = 1 /\ pending = "NotFound"
    /\ started = <<"require_env", "login", "get_clan">>

\* Control has left _fetch_python_clan.
LeftFetchA == Did("login") /\ pc \in {"fetch_java", "compare", "exited"}

\* C7 as stated: on every way out of _fetch_python_clan, client.close() has
\* been called.
C7_AlwaysClosed == LeftFetchA => http = "closed"

\* C7, amended: on every way out of _fetch_python_clan no session is left
\* open: client.close() has been called whenever client.http was set, and
\* is skipped only when login raised before the session existed; fetch B
\* never starts while the client is open.
C7_NeverLeftOpen ==
    /\ LeftFetchA => http # "open"
    /\ LeftFetchA /\ http = "none" => pending # "" /\ ~Did("get_clan")
    /\ pc = "fetch_java" \/ Did("subprocess") => http = "closed"

\* The run ended by an error of get_clan, the client closed.
C7_Witness ==
    pc = "exited" /\ Did("get_clan") /\ pending # "" /\ http = "closed"

\* Only whitespace, or nothing.
Blank(ts) == \A i \in 1..Len(ts) : ts[i].tok = "ws"

\* C8: fetcher B returns a payload only when the subprocess exited with 0
\* and its stripped output is non-empty and parses; a non-zero exit code
\* fails the run whatever the output, blank output fails it, unparseable
\* output fails it, each with a message of its own and status 1.
C8_JavaPayloadOnlyFromGoodRun ==
    Did("subprocess") =>
        LET parsed == loads(Strip(proc.stdout))
            failed == java_payload = Unset /\ pc = "exited" /\ exit_code = 1
        IN  /\ java_payload # Unset =>
                  /\ proc.returncode = 0 /\ ~Blank(proc.stdout)
                  /\ parsed.ok /\ java_payload = parsed.val
            /\ proc.returncode # 0 =>
                  /\ failed
                  /\ err[Len(err)] = "Java client execution failed with exit code "
                                     \o ToString(proc.returncode)
            /\ proc.returncode = 0 /\ Blank(proc.stdout) =>
                  /\ failed
                  /\ err[Len(err)] = "Java client did not return any JSON output"
            /\ proc.returncode = 0 /\ ~Blank(proc.stdout) /\ ~parsed.ok =>
                  /\ failed
                  /\ err[Len(err)] = "Failed to parse Java client output as JSON"

\* A subprocess that failed after writing a well-formed document.
C8_Witness ==
    /\ pc = "exited" /\ proc.returncode > 0
    /\ loads(Strip(proc.stdout)).ok /\ java_payload = Unset

\* C9: find_difference returns the empty string only if the two normalized
\* payloads are equal (==), so a mismatch message always names a path and a
\* discrepancy.
C9_DifferenceNeverEmpty ==
    Did("compare") =>
        /\ find_difference(left, right, "root") = "" => PyEq(left, right)
        /\ exit_code = 1 => ~Reported("")

\* A mismatch between two lists of different lengths.
C9_Witness ==
    /\ Mismatched /\ left.kind = "list" /\ right.kind = "list"
    /\ Len(left.items) # Len(right.items)

\* C10 as stated: the values at the reported path are not equal (==), or the
\* path is absent on one side.
C10_ReportedNodeIsUnequal ==
    Mismatched =>
        LET d == Diffs[ReportedAt]
        IN  \/ d.what = "missing"
            \/ ~PyEq(SubValue(left, d.steps), SubValue(right, d.steps))

====
